---- MODULE Spec2Model ----
(***************************************************************************)
(* Model of src/TD/qlearning.py: the tabular epsilon-greedy Q-learning     *)
(* agent QLearningAgent.                                                   *)
(*                                                                         *)
(* Numbers (Q-values, rewards, alpha, epsilon, discount, random draws) are *)
(* exact rationals <<n, d>> in lowest terms with d > 0.  Python's int 0    *)
(* (the defaultdict default) and float 0.0 (getValue's literal) compare    *)
(* equal and are both the rational <<0, 1>>.                               *)
(***************************************************************************)
EXTENDS Integers, Sequences, FiniteSets, TLC

VARIABLES qValues, alpha, epsilon, discount, ret, last, written, nSteps

vars == <<qValues, alpha, epsilon, discount, ret, last, written, nSteps>>

---------------------------------------------------------------------------
(* Rational arithmetic *)

Abs(x) == IF x < 0 THEN -x ELSE x

RECURSIVE GCD(_, _)
GCD(x, y) == IF y = 0 THEN x ELSE GCD(y, x % y)

Norm(n, d) ==
    LET g == GCD(Abs(n), Abs(d))
        sg == IF d < 0 THEN -1 ELSE 1
    IN  <<(sg * n) \div g, (sg * d) \div g>>

\* Least common denominator of two rationals, and a numerator over it.
LCD(x, y) == (x[2] \div GCD(x[2], y[2])) * y[2]
Over(x, d) == x[1] * (d \div x[2])

Rat(n, d) == Norm(n, d)
RAdd(x, y) == Norm(Over(x, LCD(x, y)) + Over(y, LCD(x, y)), LCD(x, y))
RSub(x, y) == Norm(Over(x, LCD(x, y)) - Over(y, LCD(x, y)), LCD(x, y))
RMul(x, y) == Norm(x[1] * y[1], x[2] * y[2])
RLeq(x, y) == Over(x, LCD(x, y)) <= Over(y, LCD(x, y))
RLess(x, y) == Over(x, LCD(x, y)) < Over(y, LCD(x, y))

Zero == <<0, 1>>
One == <<1, 1>>

---------------------------------------------------------------------------
(* The environment the agent is driven by *)

\* Bound on the number of steps (method calls and field assignments) the
\* external driver makes in a run.
MaxSteps == 3

States == {"s1", "t"}
Actions == {"a", "b", "c"}
Pairs == States \X Actions

\* The (state, action) pairs the driver passes to getQValue, setQValue and
\* update.
CallPairs == {<<"s1", "a">>, <<"s1", "b">>, <<"s1", "c">>, <<"t", "a">>}

\* getLegalActions: the oracle handed to the constructor.  "t" is terminal
\* and "c" is legal nowhere.
getLegalActions(state) == IF state = "s1" THEN <<"a", "b">> ELSE <<>>

\* Values the driver passes to setQValue, rewards it passes to update.
QInputs == {Rat(-1, 1), Rat(10, 1)}
Rewards == {Rat(-1, 1), Rat(5, 1)}

\* Values the driver gives the hyperparameters, at construction or later.
Alphas == {Rat(1, 2), One}
Epsilons == {Zero, Rat(1, 4), One}
Discounts == {Rat(9, 10), Rat(1, 2)}

\* Outcomes of np.random.random(), a float in [0, 1).
Draws == {Zero, Rat(1, 4), Rat(1, 2)}

\* The arguments the driver constructs the agent with.
Alpha0 == Rat(1, 2)
Epsilon0 == Rat(1, 4)
Discount0 == Rat(9, 10)

---------------------------------------------------------------------------
(* Return values and the record of the last call *)

None == [kind |-> "none", num |-> Zero, act |-> "-"]
Void == [kind |-> "void", num |-> Zero, act |-> "-"]
Num(x) == [kind |-> "num", num |-> x, act |-> "-"]
Act(a) == [kind |-> "act", num |-> Zero, act |-> a]

Never == <<0, 0>>
EmptyStore == [s \in {} |-> Zero]

Call(op, s, a, s2, r, u, branch, pre) ==
    [op |-> op, s |-> s, a |-> a, s2 |-> s2, r |-> r, u |-> u,
     branch |-> branch, pre |-> pre]

---------------------------------------------------------------------------
(* The Value Store: defaultdict(lambda: defaultdict(lambda: 0)) *)

\* Variant: a miss on the action rebuilds the state's inner mapping.
VivifyReset(qv, state, action) ==
    LET hit == state \in DOMAIN qv /\ action \in DOMAIN qv[state]
    IN  [x \in DOMAIN qv \cup {state} |->
            IF x = state /\ ~hit THEN [y \in {action} |-> Zero] ELSE qv[x]]

\* Variant: the inner default is 1 (optimistic initialisation), not 0.
VivifyOptimistic(qv, state, action) ==
    LET inner == IF state \in DOMAIN qv THEN qv[state] ELSE EmptyStore
        inner2 == IF action \in DOMAIN inner
                  THEN inner
                  ELSE [x \in DOMAIN inner \cup {action} |->
                           IF x = action THEN One ELSE inner[x]]
    IN  [x \in DOMAIN qv \cup {state} |-> IF x = state THEN inner2 ELSE qv[x]]

\* self._qValues[state][action] as an expression: both levels insert their
\* default on a miss.
Vivify(qv, state, action) ==
    LET inner == IF state \in DOMAIN qv THEN qv[state] ELSE EmptyStore
        inner2 == IF action \in DOMAIN inner
                  THEN inner
                  ELSE [x \in DOMAIN inner \cup {action} |->
                           IF x = action THEN Zero ELSE inner[x]]
    IN  [x \in DOMAIN qv \cup {state} |-> IF x = state THEN inner2 ELSE qv[x]]

\* getQValue: the store after the call, and the value returned.
getQValueStore(qv, state, action) == Vivify(qv, state, action)
getQValue(qv, state, action) == getQValueStore(qv, state, action)[state][action]

\* Variant: the write replaces the state's whole inner mapping.
setQValueReplaceInner(qv, state, action, value) ==
    [x \in DOMAIN qv \cup {state} |->
        IF x = state THEN [y \in {action} |-> value] ELSE qv[x]]

\* setQValue: self._qValues[state][action] = value
setQValue(qv, state, action, value) ==
    LET inner == IF state \in DOMAIN qv THEN qv[state] ELSE EmptyStore
        inner2 == [x \in DOMAIN inner \cup {action} |->
                      IF x = action THEN value ELSE inner[x]]
    IN  [x \in DOMAIN qv \cup {state} |-> IF x = state THEN inner2 ELSE qv[x]]

\* [self.getQValue(state, a) for a in possibleActions]: the store after the
\* comprehension and the list it builds.
RECURSIVE QList(_, _, _, _)
QList(qv, state, acts, i) ==
    IF i > Len(acts)
    THEN [store |-> qv, list |-> <<>>]
    ELSE LET q1 == getQValueStore(qv, state, acts[i])
             v == getQValue(qv, state, acts[i])
             rest == QList(q1, state, acts, i + 1)
         IN  [store |-> rest.store, list |-> <<v>> \o rest.list]

\* Python's max(list): the first element is the candidate, a later element
\* replaces it only when strictly greater.
RECURSIVE MaxScan(_, _, _)
MaxScan(list, i, best) ==
    IF i > Len(list) THEN best
    ELSE MaxScan(list, i + 1, IF RLess(best, list[i]) THEN list[i] ELSE best)

\* Variant: the scan is forgotten and the first element returned.
PyMaxFirst(list) == list[1]

PyMax(list) == MaxScan(list, 2, list[1])

\* np.argmax(list): index of the first occurrence of the maximum (1-based).
RECURSIVE ArgScan(_, _, _)
ArgScan(list, i, best) ==
    IF i > Len(list) THEN best
    ELSE ArgScan(list, i + 1, IF RLess(list[best], list[i]) THEN i ELSE best)

\* Variant: the index of the last occurrence of the maximum.
RECURSIVE ArgScanLast(_, _, _)
ArgScanLast(list, i, best) ==
    IF i > Len(list) THEN best
    ELSE ArgScanLast(list, i + 1, IF RLeq(list[best], list[i]) THEN i ELSE best)

ArgMaxLast(list) == ArgScanLast(list, 2, 1)

ArgMax(list) == ArgScan(list, 2, 1)

---------------------------------------------------------------------------
(* Policy Evaluator *)

\* Variant: the maximum runs over the actions stored for the state instead
\* of the legal ones.
getValueStored(qv, state) ==
    LET stored == IF state \in DOMAIN qv THEN DOMAIN qv[state] ELSE {}
    IN  [store |-> qv,
         val |-> IF stored = {} THEN Zero
                 ELSE CHOOSE v \in {qv[state][a] : a \in stored} :
                        \A a \in stored : RLeq(qv[state][a], v)]

getValue(qv, state) ==
    LET possibleActions == getLegalActions(state)
        ql == QList(qv, state, possibleActions, 1)
    IN  IF Len(possibleActions) = 0
        THEN [store |-> qv, val |-> Zero]
        ELSE [store |-> ql.store, val |-> PyMax(ql.list)]

getPolicy(qv, state) ==
    LET possibleActions == getLegalActions(state)
        ql == QList(qv, state, possibleActions, 1)
    IN  IF Len(possibleActions) = 0
        THEN [store |-> qv, res |-> None]
        ELSE [store |-> ql.store, res |-> Act(possibleActions[ArgMax(ql.list)])]

---------------------------------------------------------------------------
(* Action Selector *)

\* Variant: the comparison is turned round (epsilon <= u).
getActionInverted(qv, state, u, choice) ==
    LET possibleActions == getLegalActions(state)
        pol == getPolicy(qv, state)
    IN  IF Len(possibleActions) = 0
        THEN [store |-> qv, res |-> None, branch |-> "none"]
        ELSE IF RLeq(epsilon, u)
        THEN [store |-> qv, res |-> Act(possibleActions[choice]),
              branch |-> "explore"]
        ELSE [store |-> pol.store, res |-> pol.res, branch |-> "policy"]

\* Variant: the exploration branch always takes the first legal action.
getActionFirstChoice(qv, state, u, choice) ==
    LET possibleActions == getLegalActions(state)
        pol == getPolicy(qv, state)
    IN  IF Len(possibleActions) = 0
        THEN [store |-> qv, res |-> None, branch |-> "none"]
        ELSE IF RLeq(u, epsilon)
        THEN [store |-> qv, res |-> Act(possibleActions[1]),
              branch |-> "explore"]
        ELSE [store |-> pol.store, res |-> pol.res, branch |-> "policy"]

\* The indices random.choice(possibleActions) can pick.
Choices(state) ==
    1..(IF Len(getLegalActions(state)) = 0 THEN 1
        ELSE Len(getLegalActions(state)))

\* getAction with the draw u of np.random.random() and the index random.choice
\* picks; the exploration branch never calls getPolicy.
getAction(qv, state, u, choice) ==
    LET possibleActions == getLegalActions(state)
        pol == getPolicy(qv, state)
    IN  IF Len(possibleActions) = 0
        THEN [store |-> qv, res |-> None, branch |-> "none"]
        ELSE IF RLeq(u, epsilon)
        THEN [store |-> qv, res |-> Act(possibleActions[choice]),
              branch |-> "explore"]
        ELSE [store |-> pol.store, res |-> pol.res, branch |-> "policy"]

---------------------------------------------------------------------------
(* Learner *)

\* Variant: the two weights of the blend are exchanged.
updateSwapped(qv, state, action, nextState, reward) ==
    LET gamma == discount
        learning_rate == alpha
        nv == getValue(qv, nextState)
        reference_qvalue == RAdd(reward, RMul(gamma, nv.val))
        old == getQValue(nv.store, state, action)
        q1 == getQValueStore(nv.store, state, action)
        updated_qvalue == RAdd(RMul(learning_rate, old),
                               RMul(RSub(One, learning_rate), reference_qvalue))
    IN  setQValue(q1, state, action, updated_qvalue)

\* Variant: the hyperparameters are the ones given at construction.
updateCached(qv, state, action, nextState, reward) ==
    LET gamma == Discount0
        learning_rate == Alpha0
        nv == getValue(qv, nextState)
        reference_qvalue == RAdd(reward, RMul(gamma, nv.val))
        old == getQValue(nv.store, state, action)
        q1 == getQValueStore(nv.store, state, action)
        updated_qvalue == RAdd(RMul(RSub(One, learning_rate), old),
                               RMul(learning_rate, reference_qvalue))
    IN  setQValue(q1, state, action, updated_qvalue)

\* update: the store after the call.
update(qv, state, action, nextState, reward) ==
    LET gamma == discount
        learning_rate == alpha
        nv == getValue(qv, nextState)
        reference_qvalue == RAdd(reward, RMul(gamma, nv.val))
        old == getQValue(nv.store, state, action)
        q1 == getQValueStore(nv.store, state, action)
        updated_qvalue == RAdd(RMul(RSub(One, learning_rate), old),
                               RMul(learning_rate, reference_qvalue))
    IN  setQValue(q1, state, action, updated_qvalue)

---------------------------------------------------------------------------
(* The state machine: one action per public operation, plus the external   *)
(* driver's assignments to the hyperparameter fields.                      *)

Init ==
    /\ qValues = EmptyStore
    /\ alpha = Alpha0
    /\ epsilon = Epsilon0
    /\ discount = Discount0
    /\ ret = Void
    /\ last = Call("init", "-", "-", "-", Zero, Zero, "-", EmptyStore)
    /\ written = [p \in Pairs |-> Never]
    /\ nSteps = 0

\* One more step of the driver.
Tick ==
    /\ nSteps < MaxSteps
    /\ nSteps' = nSteps + 1

GetQValue(s, a) ==
    /\ Tick
    /\ qValues' = getQValueStore(qValues, s, a)
    /\ ret' = Num(getQValue(qValues, s, a))
    /\ last' = Call("getQValue", s, a, "-", Zero, Zero, "-", qValues)
    /\ UNCHANGED <<alpha, epsilon, discount, written>>

SetQValue(s, a, v) ==
    /\ Tick
    /\ qValues' = setQValue(qValues, s, a, v)
    /\ ret' = Void
    /\ last' = Call("setQValue", s, a, "-", v, Zero, "-", qValues)
    /\ written' = [written EXCEPT ![<<s, a>>] = v]
    /\ UNCHANGED <<alpha, epsilon, discount>>

GetValue(s) ==
    /\ Tick
    /\ qValues' = getValue(qValues, s).store
    /\ ret' = Num(getValue(qValues, s).val)
    /\ last' = Call("getValue", s, "-", "-", Zero, Zero, "-", qValues)
    /\ UNCHANGED <<alpha, epsilon, discount, written>>

GetPolicy(s) ==
    /\ Tick
    /\ qValues' = getPolicy(qValues, s).store
    /\ ret' = getPolicy(qValues, s).res
    /\ last' = Call("getPolicy", s, "-", "-", Zero, Zero, "-", qValues)
    /\ UNCHANGED <<alpha, epsilon, discount, written>>

GetAction(s) ==
    /\ Tick
    /\ \E u \in Draws :
         \E choice \in Choices(s) :
           LET r == getAction(qValues, s, u, choice)
           IN  /\ qValues' = r.store
               /\ ret' = r.res
               /\ last' = Call("getAction", s, "-", "-", Zero, u, r.branch,
                               qValues)
               /\ UNCHANGED <<alpha, epsilon, discount, written>>

Update(s, a, s2, r) ==
    /\ Tick
    /\ qValues' = update(qValues, s, a, s2, r)
    /\ ret' = Void
    /\ last' = Call("update", s, a, s2, r, Zero, "-", qValues)
    /\ written' = [written EXCEPT ![<<s, a>>] = qValues'[s][a]]
    /\ UNCHANGED <<alpha, epsilon, discount>>

\* agent.alpha = v, agent.epsilon = v, agent.discount = v between two calls,
\* v a new value of the field.
Assigned == Call("assign", "-", "-", "-", Zero, Zero, "-", qValues)

SetAlpha(v) ==
    /\ Tick
    /\ v # alpha
    /\ alpha' = v
    /\ last' = Assigned
    /\ UNCHANGED <<qValues, epsilon, discount, ret, written>>

SetEpsilon(v) ==
    /\ Tick
    /\ v # epsilon
    /\ epsilon' = v
    /\ last' = Assigned
    /\ UNCHANGED <<qValues, alpha, discount, ret, written>>

SetDiscount(v) ==
    /\ Tick
    /\ v # discount
    /\ discount' = v
    /\ last' = Assigned
    /\ UNCHANGED <<qValues, alpha, epsilon, ret, written>>

Next ==
    \/ \E p \in CallPairs : GetQValue(p[1], p[2])
    \/ \E p \in CallPairs, v \in QInputs : SetQValue(p[1], p[2], v)
    \/ \E s \in States : GetValue(s)
    \/ \E s \in States : GetPolicy(s)
    \/ \E s \in States : GetAction(s)
    \/ \E p \in CallPairs, s2 \in States, r \in Rewards :
          Update(p[1], p[2], s2, r)
    \/ \E v \in Alphas : SetAlpha(v)
    \/ \E v \in Epsilons : SetEpsilon(v)
    \/ \E v \in Discounts : SetDiscount(v)

Spec == Init /\ [][Next]_vars

---------------------------------------------------------------------------
(* Vocabulary of the properties: what the Value Store holds, stated on the *)
(* store itself and not through the agent's methods.                       *)

\* The Q-value the store holds for a pair, 0 for a pair it does not hold.
QRead(qv, s, a) ==
    IF s \in DOMAIN qv /\ a \in DOMAIN qv[s] THEN qv[s][a] ELSE Zero

\* The (state, action) entries the store holds.
Entries(qv) == {p \in Pairs : p[1] \in DOMAIN qv /\ p[2] \in DOMAIN qv[p[1]]}

LegalSet(s) == {getLegalActions(s)[i] : i \in 1..Len(getLegalActions(s))}

\* v is the greatest Q-value the store holds over the legal actions of s.
IsMax(v, qv, s) ==
    /\ \E a \in LegalSet(s) : QRead(qv, s, a) = v
    /\ \A a \in LegalSet(s) : RLeq(QRead(qv, s, a), v)

\* The value of a state: 0 when it has no legal action.
StateValue(qv, s) ==
    IF LegalSet(s) = {} THEN Zero
    ELSE CHOOSE v \in {QRead(qv, s, a) : a \in LegalSet(s)} : IsMax(v, qv, s)

\* The first legal action of s, in the oracle's order, that attains the maximum.
FirstBest(qv, s) ==
    LET A == getLegalActions(s)
        i == CHOOSE k \in 1..Len(A) :
               /\ IsMax(QRead(qv, s, A[k]), qv, s)
               /\ \A j \in 1..(k - 1) : ~IsMax(QRead(qv, s, A[j]), qv, s)
    IN  A[i]

\* (1 - al) * Qold + al * (r + ga * V) on the store qv.
TDValue(al, ga, qv, s, a, s2, r) ==
    RAdd(RMul(RSub(One, al), QRead(qv, s, a)),
         RMul(al, RAdd(r, RMul(ga, StateValue(qv, s2)))))

Live == {s \in States : LegalSet(s) # {}}
Dead == {s \in States : LegalSet(s) = {}}

---------------------------------------------------------------------------
\* C1: after update(s, a, s2, r), getQValue(s, a) is
\* (1 - alpha) * Qold + alpha * (r + discount * V), with Qold = Q(s, a) and
\* V = the value of s2 on the store as it was before the call, and alpha and
\* discount the values current at the call.
C1_UpdateRule ==
    last.op = "update" =>
        getQValue(qValues, last.s, last.a)
            = TDValue(alpha, discount, last.pre, last.s, last.a, last.s2, last.r)

\* The example: alpha = 0.5, discount = 0.9, Q(s,a) = 0, V(s2) = 10, r = 5
\* gives 7.
C1_Witness ==
    /\ last.op = "update"
    /\ alpha = Rat(1, 2)
    /\ discount = Rat(9, 10)
    /\ last.r = Rat(5, 1)
    /\ QRead(last.pre, last.s, last.a) = Zero
    /\ StateValue(last.pre, last.s2) = Rat(10, 1)
    /\ getQValue(qValues, last.s, last.a) = Rat(7, 1)

\* C2: for a state with no legal action, in every reachable store and for
\* every epsilon, getValue returns 0.0 and getPolicy and getAction return the
\* no-action sentinel, which is no valid action.
C2_NoLegalActions ==
    /\ \A s \in Dead :
         /\ getValue(qValues, s).val = Zero
         /\ getPolicy(qValues, s).res = None
         /\ \A u \in Draws, c \in Choices(s) :
              getAction(qValues, s, u, c).res = None
    /\ \A a \in Actions : Act(a) # None
    /\ (last.op = "getValue" /\ last.s \in Dead) => ret = Num(Zero)
    /\ (last.op \in {"getPolicy", "getAction"} /\ last.s \in Dead) => ret = None

\* getAction on the terminal state, which has stored Q-values, with epsilon 1.
C2_Witness ==
    /\ last.op = "getAction"
    /\ last.s \in Dead
    /\ ret = None
    /\ epsilon = One
    /\ \E a \in Actions : QRead(qValues, last.s, a) = Rat(10, 1)

\* C3: getQValue(s, a) returns the value of the most recent write (setQValue
\* or update) to exactly that pair, 0.0 if the pair was never written; a
\* setQValue(s, a, v) is read back as v.
C3_ReadsLastWrite ==
    /\ \A p \in Pairs :
         getQValue(qValues, p[1], p[2])
            = IF written[p] = Never THEN Zero ELSE written[p]
    /\ last.op = "getQValue" =>
         ret = Num(IF written[<<last.s, last.a>>] = Never THEN Zero
                   ELSE written[<<last.s, last.a>>])
    /\ last.op = "setQValue" => getQValue(qValues, last.s, last.a) = last.r

\* A pair written twice is read back with the second value, while another
\* pair of the same state stays unwritten.
C3_Witness ==
    /\ last.op = "getQValue"
    /\ nSteps = 3
    /\ written[<<last.s, last.a>>] = Rat(10, 1)
    /\ ret = Num(Rat(10, 1))
    /\ \E b \in Actions : written[<<last.s, b>>] = Never

\* C4: for a state with legal actions A, getValue is the maximum of the
\* Q-values over A, never-written pairs counting 0.0: 0.0 when no pair of the
\* state was written, at least 0.0 when a legal action is unwritten; actions
\* outside A never contribute.
C4_ValueIsMaxOverLegal ==
    /\ \A s \in Live :
         /\ IsMax(getValue(qValues, s).val, qValues, s)
         /\ (\E a \in LegalSet(s) : written[<<s, a>>] = Never)
               => RLeq(Zero, getValue(qValues, s).val)
         /\ (\A a \in Actions : written[<<s, a>>] = Never)
               => getValue(qValues, s).val = Zero
    /\ (last.op = "getValue" /\ last.s \in Live)
         => ret = Num(StateValue(last.pre, last.s))

\* getValue returned less than the Q-value stored for an action that is not
\* legal in the state, and the first legal action does not hold the maximum.
C4_Witness ==
    /\ last.op = "getValue"
    /\ last.s \in Live
    /\ \E a \in Actions \ LegalSet(last.s) :
         RLess(ret.num, QRead(qValues, last.s, a))
    /\ RLess(QRead(qValues, last.s, getLegalActions(last.s)[1]), ret.num)

\* C5: for a state with legal actions A, getPolicy returns the action at the
\* smallest index of A whose Q-value is the maximum over A (the first of A
\* with no prior writes), and a repeated call returns the same action.
C5_PolicyFirstMax ==
    /\ \A s \in Live :
         /\ getPolicy(qValues, s).res = Act(FirstBest(qValues, s))
         /\ getPolicy(getPolicy(qValues, s).store, s).res
               = getPolicy(qValues, s).res
         /\ (\A a \in Actions : written[<<s, a>>] = Never)
               => getPolicy(qValues, s).res = Act(getLegalActions(s)[1])
    /\ (last.op = "getPolicy" /\ last.s \in Live)
         => ret = Act(FirstBest(last.pre, last.s))

\* Two legal actions tie at a non-zero maximum and the first is returned.
C5_Witness ==
    /\ last.op = "getPolicy"
    /\ last.s \in Live
    /\ \A a \in LegalSet(last.s) : QRead(last.pre, last.s, a) = Rat(10, 1)
    /\ Cardinality(LegalSet(last.s)) > 1
    /\ ret = Act(getLegalActions(last.s)[1])

\* C6 as claimed: after a getQValue or getValue call the store holds the
\* same (state, action) entries with the same values as before it.
C6_ReadsLeaveStore ==
    last.op \in {"getQValue", "getValue"} => qValues = last.pre

\* The pairs a getQValue or getValue call reads.
ReadPairs(c) ==
    IF c.op = "getQValue" THEN {<<c.s, c.a>>}
    ELSE {<<c.s, a>> : a \in LegalSet(c.s)}

\* C6 as amended: a getQValue or getValue call changes no entry the store
\* held and no value getQValue returns for any pair; the entries it adds are
\* the pairs it read that the store did not hold, each with the default 0.
C6_ReadsKeepValues ==
    last.op \in {"getQValue", "getValue"} =>
        /\ \A p \in Pairs :
             QRead(qValues, p[1], p[2]) = QRead(last.pre, p[1], p[2])
        /\ Entries(qValues) = Entries(last.pre) \cup ReadPairs(last)
        /\ \A p \in Entries(qValues) \ Entries(last.pre) :
             qValues[p[1]][p[2]] = Zero

\* A read on a store that holds a written pair adds an entry for the pair read.
C6_Witness ==
    /\ last.op \in {"getQValue", "getValue"}
    /\ \E p \in Entries(last.pre) : last.pre[p[1]][p[2]] = Rat(10, 1)
    /\ Entries(qValues) # Entries(last.pre)

\* C7 as claimed: with epsilon = 0.0, for every draw u in [0, 1), getAction
\* on a state with legal actions returns what getPolicy returns.
C7_GreedyAtZero ==
    (last.op = "getAction" /\ last.s \in Live /\ epsilon = Zero)
        => ret = Act(FirstBest(last.pre, last.s))

\* C7 as amended: with epsilon = 0.0, for every draw u > 0, getAction on a
\* state with legal actions returns what getPolicy returns; the draw u = 0.0
\* takes the exploration branch.
C7_GreedyAtZeroPositiveDraw ==
    /\ \A s \in Live, u \in Draws : \A c \in Choices(s) :
         (epsilon = Zero /\ RLess(Zero, u))
            => getAction(qValues, s, u, c).res = getPolicy(qValues, s).res
    /\ (last.op = "getAction" /\ last.s \in Live /\ epsilon = Zero) =>
         /\ RLess(Zero, last.u)
              => (ret = Act(FirstBest(last.pre, last.s))
                  /\ last.branch = "policy")
         /\ last.u = Zero => last.branch = "explore"

\* Greedy getAction with epsilon 0 where the greedy action is not the first.
C7_Witness ==
    /\ last.op = "getAction"
    /\ last.s \in Live
    /\ epsilon = Zero
    /\ RLess(Zero, last.u)
    /\ ret # Act(getLegalActions(last.s)[1])

\* C8: with epsilon = 1.0, for every draw u in [0, 1), getAction on a state
\* with legal actions A takes the exploration branch: its result is a member
\* of A, and every member of A is a possible result.
C8_ExploreAtOne ==
    /\ epsilon = One =>
         \A s \in Live :
            /\ \A u \in Draws, c \in Choices(s) :
                 /\ getAction(qValues, s, u, c).branch = "explore"
                 /\ getAction(qValues, s, u, c).res.kind = "act"
                 /\ getAction(qValues, s, u, c).res.act \in LegalSet(s)
            /\ \A a \in LegalSet(s), u \in Draws :
                 \E c \in Choices(s) : getAction(qValues, s, u, c).res = Act(a)
    /\ (last.op = "getAction" /\ last.s \in Live /\ epsilon = One) =>
         /\ last.branch = "explore"
         /\ ret.kind = "act"
         /\ ret.act \in LegalSet(last.s)

\* Exploration returned an action that is not the greedy one.
C8_Witness ==
    /\ last.op = "getAction"
    /\ last.s \in Live
    /\ epsilon = One
    /\ last.branch = "explore"
    /\ ret # Act(FirstBest(last.pre, last.s))

\* C9: every update step computes its result with the alpha and discount the
\* fields hold when it is called, and every getAction step compares its draw
\* with the epsilon the field holds when it is called, whatever was given at
\* construction.
C9_FieldsReadAtCall ==
    [][ /\ (last').op = "update" =>
             getQValue(qValues', (last').s, (last').a)
                = TDValue(alpha, discount, qValues, (last').s, (last').a,
                          (last').s2, (last').r)
        /\ ((last').op = "getAction" /\ (last').s \in Live) =>
             ((last').branch = "explore" <=> RLeq((last').u, epsilon)) ]_vars

\* An update made after alpha or discount was assigned a new value, whose
\* result is not the one the construction values give.
C9_Witness ==
    /\ last.op = "update"
    /\ (alpha # Alpha0 \/ discount # Discount0)
    /\ getQValue(qValues, last.s, last.a)
          # TDValue(Alpha0, Discount0, last.pre, last.s, last.a, last.s2, last.r)

\* C10: an update step changes the Q-value of the pair (s, a) only: getQValue
\* of every other pair, those of the next state included, returns what it
\* returned before, and alpha, epsilon and discount are unchanged.
C10_UpdateFrame ==
    [][ (last').op = "update" =>
          /\ \A p \in Pairs \ {<<(last').s, (last').a>>} :
               getQValue(qValues', p[1], p[2]) = getQValue(qValues, p[1], p[2])
          /\ alpha' = alpha
          /\ epsilon' = epsilon
          /\ discount' = discount ]_vars

\* An update with next state = state that changed its pair while another pair
\* of the same state keeps a written value.
C10_Witness ==
    /\ last.op = "update"
    /\ last.s = last.s2
    /\ QRead(qValues, last.s, last.a) # QRead(last.pre, last.s, last.a)
    /\ \E b \in Actions \ {last.a} :
         /\ written[<<last.s, b>>] = Rat(10, 1)
         /\ QRead(qValues, last.s, b) = Rat(10, 1)

====
